---------------------------- MODULE Spec2Model ----------------------------
(***************************************************************************)
(* ipwatcher: the change-detection-and-notification cycle.                 *)
(*                                                                         *)
(* The process is one tokio task (main).  Its positions are the awaits of  *)
(* src/src/main.rs and src/src/ip.rs; the synchronous code between two     *)
(* awaits is one step.  The store (SQLite file) outlives the process, so   *)
(* a terminated process may be started again on the same history.          *)
(***************************************************************************)
EXTENDS Naturals, Sequences, FiniteSets, TLC

VARIABLES
    pc,         \* position of main: an await, or a terminal state
    cfg,        \* Config as loaded: ip_sources, check_interval_secs
    idx,        \* query_external_ip: index of the source being fetched
    history,    \* ip_history rows (column ip), ordered by AUTOINCREMENT id
    sig,        \* SIGINT delivered to the registered ctrl_c listener
    exitCause,  \* the error main returned ("none" if none)
    cyc,        \* observer: what the current / last cycle did
    run,        \* observer: what this process run did
    ninv,       \* observer: notify invocations per history row
    stray,      \* observer: a notify was invoked for no appended row
    nfail,      \* observer: address whose notification failed, "none"
    sigAt,      \* observer: where main was when SIGINT arrived
    postSig,    \* observer: a cycle stage was started after SIGINT
    cycles,     \* number of cycles started (bounded)
    restarts,   \* number of process restarts (bounded)
    q,          \* a query_external_ip call taken alone (ResolveSpec)
    store,      \* an ip_history table taken alone (StoreSpec)
    interval,   \* main.rs 70: the polling interval in seconds (0: not yet set)
    inflight    \* observer: the network operations of cycles in flight

vars == <<pc, cfg, idx, history, sig, exitCause, cyc, run,
          ninv, stray, nfail, sigAt, postSig, cycles, restarts, q, store,
          interval, inflight>>

---------------------------------------------------------------------------
(* Bounds *)
MaxSources  == 2    \* longest configured ip_sources list explored
MaxCycles   == 4    \* cycles started over all runs
MaxRestarts == 1    \* process restarts
MaxRows     == 5    \* rows of a table taken alone

(* Values *)
None  == "None"                          \* Option::None of an address
Addrs == {"ipA", "ipB"}                 \* std::net::IpAddr values
Ws    == {" ", "\n"}                    \* whitespace characters
ParseFail == "ParseFail"

\* ip.rs 15-20: the built-in source list
DefaultSources == <<"api.ipify.org", "ifconfig.me/ip", "ident.me",
                    "checkip.amazonaws.com">>

\* config.rs 9: ip_sources is None or a list (lists up to MaxSources long)
UserUrls == <<"u1", "u2", "u3", "u4", "u5">>
NoSourcesKey == [some |-> FALSE, urls |-> <<>>]
ConfigSources ==
    {NoSourcesKey}
    \cup {[some |-> TRUE, urls |-> SubSeq(UserUrls, 1, n)] : n \in 0..MaxSources}

\* IpAddr's Display: the canonical text of an address
ip_to_string(a) == IF a = "ipA" THEN <<"a">> ELSE <<"b">>

\* str::parse::<IpAddr>: only the exact text of an address parses
ParseIp(t) ==
    IF t = <<"a">> THEN "ipA"
    ELSE IF t = <<"b">> THEN "ipB"
    ELSE ParseFail

\* str::trim: strip leading and trailing whitespace
RECURSIVE TrimStart(_)
TrimStart(t) ==
    IF t # <<>> /\ Head(t) \in Ws THEN TrimStart(Tail(t)) ELSE t

RECURSIVE TrimEnd(_)
TrimEnd(t) ==
    IF t # <<>> /\ t[Len(t)] \in Ws THEN TrimEnd(SubSeq(t, 1, Len(t) - 1))
    ELSE t

Trim(t) == TrimEnd(TrimStart(t))

\* What one source may answer: a transport error, or an HTTP response with
\* a status (success or not) and a body text.
TransportErr == [kind |-> "err", ok |-> FALSE, body |-> <<>>]
Bodies == { <<"x">>, <<" ", "a", "\n">>, <<"b">> }
Responses ==
    {TransportErr}
    \cup {[kind |-> "http", ok |-> TRUE, body |-> b] : b \in Bodies}
    \cup {[kind |-> "http", ok |-> FALSE, body |-> <<"b">>]}

\* config.rs 6: check_interval_secs (u64): values around the floor
IntervalChoices == {0, 29, 30, 31}

\* config.rs 5-11: the loaded Config (db_path and smtp are not followed)
Configs ==
    {[ip_sources |-> k, check_interval_secs |-> n] :
        k \in ConfigSources, n \in IntervalChoices}

\* no config.toml has been loaded
NoConfig == [ip_sources |-> NoSourcesKey, check_interval_secs |-> 0]

---------------------------------------------------------------------------
(* ip.rs: query_external_ip *)

\* ip.rs 21: sources.unwrap_or(default_sources)
SourceList(c) == IF c.some THEN c.urls ELSE DefaultSources

IsEmpty_Never(l) == FALSE
\* ip.rs 22: list.is_empty()
IsEmpty(l) == Len(l) = 0

FetchResult_AnyStatus(resp) ==
    IF resp.kind = "http" THEN ParseIp(Trim(resp.body)) ELSE ParseFail
FetchResult_NoTrim(resp) ==
    IF resp.kind = "http" /\ resp.ok THEN ParseIp(resp.body) ELSE ParseFail
\* ip.rs 27-36: one iteration of the loop: the address this source yields,
\* or ParseFail when the loop goes on to the next source
FetchResult(resp) ==
    IF resp.kind = "http" /\ resp.ok
    THEN ParseIp(Trim(resp.body))
    ELSE ParseFail


---------------------------------------------------------------------------
(* db.rs *)

get_last_ip_First(h) ==
    IF h = <<>> THEN None ELSE ParseIp(h[1])
\* db.rs 30-42: SELECT ip ... ORDER BY id DESC LIMIT 1, parsed
get_last_ip(h) ==
    IF h = <<>> THEN None ELSE ParseIp(h[Len(h)])

save_ip_Lost(h, ip) == h
save_ip_Replace(h, ip) ==
    IF h = <<>> THEN <<ip_to_string(ip)>>
    ELSE [h EXCEPT ![Len(h)] = ip_to_string(ip)]
\* db.rs 45-54: INSERT INTO ip_history (ip, changed_at)
save_ip(h, ip) == Append(h, ip_to_string(ip))

init_db_Recreate(h) == <<>>
\* db.rs 7-27: CREATE TABLE IF NOT EXISTS leaves an existing table and its
\* rows as they are
init_db(h) == h

---------------------------------------------------------------------------
(* main.rs: the decision of a cycle *)

IsFirst_Never(last) == FALSE
\* main.rs 53: last_ip.is_none()
IsFirst(last) == last = None

Changed_Always(ip, last) == TRUE
\* main.rs 57, 96: Some(ip) != last
Changed(ip, last) == ip # last

AfterSave_Ignore(saveOk) == "notify"
\* main.rs 54, 58 (`?`) and 97-100 (`continue`): a failed save ends the cycle
AfterSave(saveOk) == IF saveOk THEN "notify" ELSE "abort"

LoopFirstTime_True == TRUE
\* main.rs 101: send_ip_email(.., ip, false)
LoopFirstTime == FALSE

\* main.rs 70: the floor of the polling interval, in seconds
PollFloor == 30

EffectiveInterval_Min(secs) == IF secs < PollFloor THEN secs ELSE PollFloor
\* main.rs 70: cfg.check_interval_secs.max(30)
EffectiveInterval(secs) == IF secs > PollFloor THEN secs ELSE PollFloor

SendAwaited_Spawned == FALSE
\* main.rs 101: poll_loop awaits send_ip_email before it goes on
SendAwaited == TRUE

\* main.rs 133-137: the subject tells a first detection from a change
Subject(first_time) == IF first_time THEN "first" ELSE "change"

\* ip.rs 22-26: entering query_external_ip: the NoSources guard, then the
\* loop, which an empty list leaves at once for the final error
StartQuery(l) ==
    IF IsEmpty(l) THEN "NoSources"
    ELSE IF Len(l) = 0 THEN "AllSourcesFailed"
    ELSE "fetch"

\* ip.rs 26-39: source i of list l has answered resp: return its address,
\* go on to the next source, or fail when the list is exhausted
QueryStep(l, i, resp) ==
    LET ip == FetchResult(resp)
    IN  IF ip # ParseFail THEN [st |-> "ok", ip |-> ip, idx |-> i]
        ELSE IF i < Len(l) THEN [st |-> "fetch", ip |-> "none", idx |-> i + 1]
        ELSE [st |-> "AllSourcesFailed", ip |-> "none", idx |-> i]

---------------------------------------------------------------------------
(* main.rs 51-67: the startup cycle after a resolved address, up to the    *)
(* first await (the SMTP send) or the end of the cycle                     *)
StartupBody(ip, h, readOk, saveOk) ==
    LET last == IF readOk THEN get_last_ip(h) ELSE ParseFail
        base == [next |-> "exit", cause |-> "StoreRead", hist |-> h,
                 prior |-> "readerr", append |-> "none", notify |-> "none"]
        write(first) ==
            IF AfterSave(saveOk) = "abort"
            THEN [base EXCEPT !.cause = "StoreWrite", !.prior = last,
                              !.append = "fail"]
            ELSE [base EXCEPT !.next = "s_notify", !.cause = "none",
                              !.prior = last,
                              !.hist = IF saveOk THEN save_ip(h, ip) ELSE h,
                              !.append = IF saveOk THEN "ok" ELSE "fail",
                              !.notify = Subject(first)]
    IN  IF last = ParseFail THEN base
        ELSE IF IsFirst(last) THEN write(TRUE)
        ELSE IF Changed(ip, last) THEN write(FALSE)
        ELSE [base EXCEPT !.next = "sleep", !.cause = "none", !.prior = last]

(* main.rs 94-111: a polling cycle after a resolved address, up to the     *)
(* first await (the SMTP send) or the end of the cycle                     *)
LoopBody(ip, h, readOk, saveOk) ==
    LET last == IF readOk THEN get_last_ip(h) ELSE ParseFail
        base == [next |-> "sleep", cause |-> "none", hist |-> h,
                 prior |-> "readerr", append |-> "none", notify |-> "none"]
    IN  IF last = ParseFail THEN base
        ELSE IF Changed(ip, last) THEN
            IF AfterSave(saveOk) = "abort"
            THEN [base EXCEPT !.prior = last, !.append = "fail"]
            ELSE [base EXCEPT !.next = IF SendAwaited THEN "notify"
                                                       ELSE "sleep",
                              !.prior = last,
                              !.hist = IF saveOk THEN save_ip(h, ip) ELSE h,
                              !.append = IF saveOk THEN "ok" ELSE "fail",
                              !.notify = Subject(LoopFirstTime)]
        ELSE [base EXCEPT !.prior = last]

---------------------------------------------------------------------------
(* Observers *)

\* a source yields address a: a success status and a body that is the text
\* of a, possibly between whitespace
IsAddrText(b, a) ==
    \E lo \in 1..Len(b), hi \in 1..Len(b) :
        /\ SubSeq(b, lo, hi) = ip_to_string(a)
        /\ \A k \in 1..Len(b) : (k < lo \/ k > hi) => b[k] \in Ws
Yields(resp, a) == resp.kind = "http" /\ resp.ok /\ IsAddrText(resp.body, a)
Fails(resp) == \A a \in Addrs : ~Yields(resp, a)

NoCycle == [kind |-> "none", prior |-> "unread", ip |-> "none",
            append |-> "none", notify |-> "none", hist0 |-> <<>>,
            afterFail |-> "none", done |-> FALSE, allBad |-> TRUE,
            epoch |-> 0]

\* a cycle starts on history h in process run e
NewCycle(kind, h, e) ==
    [NoCycle EXCEPT !.kind = kind, !.hist0 = h, !.epoch = e]

\* the cycle record once a source has answered resp
Saw(c, resp) == [c EXCEPT !.allBad = @ /\ Fails(resp)]

\* the cycle record once the address is resolved and the body b has run
Decided(c, ip, b, nf) ==
    [c EXCEPT !.prior = b.prior, !.ip = ip, !.append = b.append,
              !.notify = b.notify, !.afterFail = nf, !.done = TRUE]

\* notify invocations per row: a new row starts at 0; an invocation counts
\* for the row this cycle appended if that row carries the notified address
RowsAfter(n, h0, h1) == IF Len(h1) > Len(h0) THEN Append(n, 0) ELSE n
CountsAfter(n, h0, h1, ip, invoked) ==
    LET n1 == RowsAfter(n, h0, h1)
    IN  IF invoked /\ Len(h1) > Len(h0) /\ h1[Len(h1)] = ip_to_string(ip)
        THEN [n1 EXCEPT ![Len(n1)] = @ + 1]
        ELSE n1
StrayAfter(h0, h1, ip, invoked) ==
    invoked /\ ~(Len(h1) > Len(h0) /\ h1[Len(h1)] = ip_to_string(ip))

\* no query_external_ip call is being followed
NoQuery == [list |-> <<>>, answers |-> <<>>, st |-> "idle", idx |-> 0,
            fetches |-> 0, ip |-> "none"]

\* no table is being followed: rows are the table, log the addresses
\* appended so far, got the last read, fresh whether it follows every append
NoStore == [rows |-> <<>>, log |-> <<>>, got |-> "unread", fresh |-> FALSE]

\* the operations in flight once op has started / has completed, and once
\* main has been polled in the select (a select that ends drops poll_loop)
Started(fl, op) == fl \cup {op}
Finished(fl, op) == fl \ {op}
Dropped(fl) == IF sig THEN {} ELSE fl

NewRun(h) == [fetched |-> FALSE, notified |-> FALSE, hist0 |-> h]

---------------------------------------------------------------------------
Init ==
    /\ pc = "jitter"
    /\ cfg = NoConfig
    /\ idx = 0
    /\ history = <<>>
    /\ sig = FALSE
    /\ exitCause = "none"
    /\ cyc = NoCycle
    /\ run = NewRun(<<>>)
    /\ ninv = <<>>
    /\ stray = FALSE
    /\ nfail = "none"
    /\ sigAt = "none"
    /\ postSig = FALSE
    /\ cycles = 0
    /\ restarts = 0
    /\ interval = 0
    /\ inflight = {}
    /\ q = NoQuery
    /\ store = NoStore

---------------------------------------------------------------------------
(* The process before the ctrl_c listener exists (main.rs 33-67).  No      *)
(* SIGINT handler is registered until signal::ctrl_c() is first polled at  *)
(* main.rs 75, so until then SIGINT has its default disposition and ends   *)
(* the process.                                                            *)

Startup == {"jitter", "s_fetch", "s_notify"}
Select  == {"sleep", "fetch", "notify"}
Ended   == {"exited", "killed", "shutdown"}

Exit(cause) ==
    /\ pc' = "exited"
    /\ exitCause' = cause

\* main.rs 36-50: the jitter sleep ends; config, store, mailer and client
\* are set up (any failure returns Err from main); the initial query starts
JitterDone ==
    /\ pc = "jitter"
    /\ cycles < MaxCycles
    /\ \E setupOk \in BOOLEAN, c \in Configs :
          IF ~setupOk
          THEN /\ Exit("Config")
               /\ UNCHANGED <<cfg, idx, history, cyc, run, cycles,
                              inflight>>
          ELSE /\ cfg' = c
               /\ history' = init_db(history)
               /\ cycles' = cycles + 1
               /\ cyc' = NewCycle("startup", init_db(history), restarts)
               /\ LET start == StartQuery(SourceList(c.ip_sources))
                  IN  IF start = "fetch"
                      THEN /\ idx' = 1
                           /\ pc' = "s_fetch"
                           /\ run' = [run EXCEPT !.fetched = TRUE]
                           /\ inflight' = Started(inflight, "fetch")
                           /\ UNCHANGED exitCause
                      ELSE /\ Exit(start)
                           /\ UNCHANGED <<idx, run, inflight>>
    /\ UNCHANGED <<sig, ninv, stray, nfail, sigAt, postSig, restarts,
                   q,
                   store,
                   interval>>

\* ip.rs 26-39 then main.rs 50-67: the fetch in flight completes; on an
\* address the rest of the startup cycle runs up to its next await
StartupFetchDone ==
    /\ pc = "s_fetch"
    /\ \E resp \in Responses :
       LET r == QueryStep(SourceList(cfg.ip_sources), idx, resp)
           ip == r.ip
       IN  IF r.st = "ok"
           THEN \E readOk \in BOOLEAN, saveOk \in BOOLEAN :
                  LET b == StartupBody(ip, history, readOk, saveOk)
                      inv == b.notify # "none"
                  IN  /\ history' = b.hist
                      /\ cyc' = Decided(Saw(cyc, resp), ip, b, nfail)
                      /\ nfail' = "none"
                      /\ ninv' = CountsAfter(ninv, history, b.hist, ip, inv)
                      /\ stray' = (stray \/ StrayAfter(history, b.hist, ip, inv))
                      /\ run' = [run EXCEPT !.notified = @ \/ inv]
                      /\ IF b.next = "exit"
                         THEN Exit(b.cause) /\ inflight' = {}
                         ELSE /\ pc' = b.next
                              /\ inflight' =
                                   IF inv
                                   THEN Started(Finished(inflight, "fetch"),
                                                "smtp")
                                   ELSE Finished(inflight, "fetch")
                              /\ UNCHANGED exitCause
                      /\ interval' =
                           IF b.next = "sleep"
                           THEN EffectiveInterval(cfg.check_interval_secs)
                           ELSE interval
                      /\ UNCHANGED idx
           ELSE /\ IF r.st = "fetch"
                   THEN /\ idx' = r.idx
                        /\ cyc' = Saw(cyc, resp)
                        /\ UNCHANGED <<pc, exitCause, inflight>>
                   ELSE /\ Exit(r.st)
                        /\ inflight' = {}
                        /\ cyc' = [Saw(cyc, resp) EXCEPT !.done = TRUE]
                        /\ UNCHANGED idx
                /\ UNCHANGED <<history, ninv, stray, nfail, run, interval>>
    /\ UNCHANGED <<cfg, sig, sigAt, postSig, cycles, restarts, q,
                   store>>

\* main.rs 55, 59 (`.await?`) then 70-78: the SMTP send completes; a
\* failure returns Err from main, a success enters the select
StartupNotifyDone ==
    /\ pc = "s_notify"
    /\ \E ok \in BOOLEAN :
          IF ok
          THEN /\ pc' = "sleep"
               /\ interval' = EffectiveInterval(cfg.check_interval_secs)
               /\ inflight' = Finished(inflight, "smtp")
               /\ UNCHANGED <<exitCause, nfail>>
          ELSE /\ Exit("Notify")
               /\ nfail' = cyc.ip
               /\ inflight' = {}
               /\ UNCHANGED interval
    /\ UNCHANGED <<cfg, idx, history, sig, cyc, run, ninv, stray,
                   sigAt, postSig, cycles, restarts, q,
                   store>>

\* SIGINT with its default disposition: the process is terminated
SigKill ==
    /\ pc \in Startup
    /\ pc' = "killed"
    /\ inflight' = {}
    /\ sigAt' = pc
    /\ UNCHANGED <<cfg, idx, history, sig, exitCause, cyc, run, ninv,
                   stray, nfail, postSig, cycles, restarts, q,
                   store,
                   interval>>

---------------------------------------------------------------------------
(* main.rs 73-78: select! over poll_loop and ctrl_c.  The macro polls its  *)
(* branches in a random order and returns at the first one that is ready:  *)
(* when SIGINT has been delivered and poll_loop's await is ready too,      *)
(* poll_loop may be polled first and run to its next await before the      *)
(* ctrl_c branch ends the select.                                          *)

\* where main is after poll_loop has run to the await `next`
AfterPoll(next) == IF sig THEN "shutdown" ELSE next

\* main.rs 91-93: the interval sleep ends and the query starts
LoopWake ==
    /\ pc = "sleep"
    /\ cycles < MaxCycles
    /\ cycles' = cycles + 1
    /\ postSig' = (postSig \/ sig)
    /\ LET start == StartQuery(SourceList(cfg.ip_sources))
       IN  IF start = "fetch"
           THEN /\ idx' = 1
                /\ pc' = AfterPoll("fetch")
                /\ cyc' = NewCycle("loop", history, restarts)
                /\ run' = [run EXCEPT !.fetched = TRUE]
                /\ inflight' = Dropped(Started(inflight, "fetch"))
           ELSE /\ pc' = AfterPoll("sleep")
                /\ cyc' = [NewCycle("loop", history, restarts) EXCEPT !.done = TRUE]
                /\ inflight' = Dropped(inflight)
                /\ UNCHANGED <<idx, run>>
    /\ UNCHANGED <<cfg, history, sig, exitCause, ninv, stray, nfail, sigAt,
                   restarts, q,
                   store,
                   interval>>

\* ip.rs 26-39 then main.rs 93-113: the fetch in flight completes; on an
\* address the rest of the cycle runs up to its next await
LoopFetchDone ==
    /\ pc = "fetch"
    /\ \E resp \in Responses :
       LET r == QueryStep(SourceList(cfg.ip_sources), idx, resp)
           ip == r.ip
       IN  IF r.st = "ok"
           THEN \E readOk \in BOOLEAN, saveOk \in BOOLEAN :
                  LET b == LoopBody(ip, history, readOk, saveOk)
                      inv == b.notify # "none"
                  IN  /\ history' = b.hist
                      /\ cyc' = Decided(Saw(cyc, resp), ip, b, nfail)
                      /\ nfail' = "none"
                      /\ ninv' = CountsAfter(ninv, history, b.hist, ip, inv)
                      /\ stray' = (stray \/ StrayAfter(history, b.hist, ip, inv))
                      /\ run' = [run EXCEPT !.notified = @ \/ inv]
                      /\ pc' = AfterPoll(b.next)
                      /\ inflight' =
                           Dropped(IF inv
                                   THEN Started(Finished(inflight, "fetch"),
                                                "smtp")
                                   ELSE Finished(inflight, "fetch"))
                      /\ postSig' = (postSig \/ (sig /\ b.append # "none"))
                      /\ UNCHANGED idx
           ELSE /\ IF r.st = "fetch"
                   THEN /\ idx' = r.idx
                        /\ pc' = AfterPoll("fetch")
                        /\ postSig' = (postSig \/ sig)
                        /\ inflight' = Dropped(inflight)
                        /\ cyc' = Saw(cyc, resp)
                   ELSE /\ pc' = AfterPoll("sleep")
                        /\ cyc' = [Saw(cyc, resp) EXCEPT !.done = TRUE]
                        /\ inflight' = Dropped(Finished(inflight, "fetch"))
                        /\ UNCHANGED <<idx, postSig>>
                /\ UNCHANGED <<history, ninv, stray, nfail, run>>
    /\ UNCHANGED <<cfg, sig, exitCause, sigAt, cycles, restarts, q,
                   store,
                   interval>>

\* main.rs 101-105 then 91: the SMTP send completes; either way the loop
\* goes on to its next sleep
LoopNotifyDone ==
    /\ pc = "notify"
    /\ \E ok \in BOOLEAN :
          nfail' = IF ok THEN nfail ELSE cyc.ip
    /\ pc' = AfterPoll("sleep")
    /\ inflight' = Dropped(Finished(inflight, "smtp"))
    /\ UNCHANGED <<cfg, idx, history, sig, exitCause, cyc, run, ninv,
                   stray, sigAt, postSig, cycles, restarts, q,
                   store,
                   interval>>

\* SIGINT is delivered to the registered listener
Signal ==
    /\ pc \in Select
    /\ ~sig
    /\ sig' = TRUE
    /\ sigAt' = pc
    /\ UNCHANGED <<pc, cfg, idx, history, exitCause, cyc, run, ninv,
                   stray, nfail, postSig, cycles, restarts, q,
                   store,
                   interval, inflight>>

\* main.rs 75-80: the ctrl_c branch is ready: poll_loop is dropped at its
\* await and main returns Ok(())
CtrlC ==
    /\ pc \in Select
    /\ sig
    /\ pc' = "shutdown"
    /\ inflight' = {}
    /\ UNCHANGED <<cfg, idx, history, sig, exitCause, cyc, run, ninv,
                   stray, nfail, sigAt, postSig, cycles, restarts, q,
                   store,
                   interval>>

\* the process is started again on the same store
Restart ==
    /\ pc \in Ended
    /\ restarts < MaxRestarts
    /\ restarts' = restarts + 1
    /\ pc' = "jitter"
    /\ cfg' = NoConfig
    /\ interval' = 0
    /\ inflight' = {}
    /\ idx' = 0
    /\ sig' = FALSE
    /\ exitCause' = "none"
    /\ run' = NewRun(history)
    /\ sigAt' = "none"
    /\ postSig' = FALSE
    /\ UNCHANGED <<history, cyc, ninv, stray, nfail, cycles, q,
                   store>>

Next ==
    \/ JitterDone
    \/ StartupFetchDone
    \/ StartupNotifyDone
    \/ SigKill
    \/ LoopWake
    \/ LoopFetchDone
    \/ LoopNotifyDone
    \/ Signal
    \/ CtrlC
    \/ Restart

Spec == Init /\ [][Next]_vars

---------------------------------------------------------------------------
(* query_external_ip taken alone: the list and the answer every source     *)
(* would give are fixed at the call; the steps are those of ip.rs.         *)

QueryLists == {SourceList(c) : c \in ConfigSources}

ResolveInit ==
    /\ pc = "jitter"
    /\ cfg = NoConfig
    /\ idx = 0
    /\ history = <<>>
    /\ sig = FALSE
    /\ exitCause = "none"
    /\ cyc = NoCycle
    /\ run = NewRun(<<>>)
    /\ ninv = <<>>
    /\ stray = FALSE
    /\ nfail = "none"
    /\ sigAt = "none"
    /\ postSig = FALSE
    /\ cycles = 0
    /\ restarts = 0
    /\ interval = 0
    /\ inflight = {}
    /\ \E l \in QueryLists :
       \E a \in [1..Len(l) -> Responses] :
          q = [NoQuery EXCEPT !.list = l, !.answers = a, !.st = "call"]
    /\ store = NoStore

main_vars == <<pc, cfg, idx, history, sig, exitCause, cyc, run, ninv, stray,
               nfail, sigAt, postSig, cycles, restarts, interval, inflight>>

\* ip.rs 21-27: the call: the NoSources guard, then the first fetch
QueryCall ==
    /\ q.st = "call"
    /\ LET start == StartQuery(q.list)
       IN  q' = IF start = "fetch"
                THEN [q EXCEPT !.st = "fetch", !.idx = 1, !.fetches = 1]
                ELSE [q EXCEPT !.st = start]
    /\ UNCHANGED <<main_vars, store>>

\* ip.rs 26-39: the fetch in flight is answered
QueryFetchDone ==
    /\ q.st = "fetch"
    /\ LET r == QueryStep(q.list, q.idx, q.answers[q.idx])
       IN  q' = [q EXCEPT !.st = r.st, !.idx = r.idx, !.ip = r.ip,
                          !.fetches = IF r.st = "fetch" THEN @ + 1 ELSE @]
    /\ UNCHANGED <<main_vars, store>>

ResolveNext == QueryCall \/ QueryFetchDone

ResolveSpec == ResolveInit /\ [][ResolveNext]_vars

---------------------------------------------------------------------------
(* Properties *)

\* the cycle resolved an address and ran its decision
DecidedCycle == cyc.done /\ cyc.ip \in Addrs

\* C1: in every cycle (startup or polling) that finds no prior address and
\* resolves X, the append of X is made and, once it has succeeded, History
\* is the earlier History followed by X and notify has been invoked with
\* isFirstObservation = true; notify is never invoked with false.
C1_FirstObservation ==
    (DecidedCycle /\ cyc.prior = None) =>
        /\ cyc.append # "none"
        /\ cyc.notify # "change"
        /\ cyc.append = "ok" =>
              /\ history = Append(cyc.hist0, ip_to_string(cyc.ip))
              /\ cyc.notify = "first"

C1_Witness ==
    /\ DecidedCycle /\ cyc.prior = None
    /\ cyc.append = "ok" /\ cyc.notify = "first"
    /\ history = <<ip_to_string(cyc.ip)>>

\* C2: in every cycle whose last address is X and whose resolved address is
\* Y # X, the append of Y is made and, once it has succeeded, exactly one
\* row Y has been added to History and notify has been invoked with
\* isFirstObservation = false (never with true).
C2_ChangedAddress ==
    (DecidedCycle /\ cyc.prior \in Addrs /\ cyc.ip # cyc.prior) =>
        /\ cyc.append # "none"
        /\ cyc.notify # "first"
        /\ cyc.append = "ok" =>
              /\ history = Append(cyc.hist0, ip_to_string(cyc.ip))
              /\ cyc.notify = "change"

C2_Witness ==
    /\ DecidedCycle /\ cyc.kind = "loop"
    /\ cyc.prior \in Addrs /\ cyc.ip # cyc.prior
    /\ cyc.append = "ok" /\ cyc.notify = "change"
    /\ Len(history) = Len(cyc.hist0) + 1

\* C3: in every cycle whose last address equals the resolved address,
\* nothing is appended and no notification is invoked: History is what it
\* was when the cycle started.
C3_Unchanged ==
    (DecidedCycle /\ cyc.prior = cyc.ip) =>
        /\ cyc.append = "none"
        /\ cyc.notify = "none"
        /\ history = cyc.hist0

C3_Witness ==
    /\ DecidedCycle /\ cyc.kind = "loop" /\ cyc.prior = cyc.ip
    /\ history = cyc.hist0 /\ pc = "sleep"

\* C4: a cycle (startup or polling) whose append failed invokes no notify.
C4_NoNotifyAfterFailedAppend ==
    cyc.append = "fail" => cyc.notify = "none"

C4_Witness ==
    /\ cyc.kind = "loop" /\ cyc.append = "fail" /\ pc = "sleep"

\* C5: when the notify of an appended address failed, the next cycle that
\* resolves that same address appends nothing and invokes no notify.
C5_NoRenotifyAfterNotifyFailure ==
    (DecidedCycle /\ cyc.afterFail = cyc.ip) =>
        /\ cyc.append = "none"
        /\ cyc.notify = "none"
        /\ history = cyc.hist0

C5_Witness ==
    /\ DecidedCycle /\ cyc.kind = "loop"
    /\ cyc.afterFail = cyc.ip /\ cyc.prior = cyc.ip
    /\ Len(history) >= 2

\* the configuration-time failures: config, store, mailer or client set-up
\* (main.rs 40-47) and an empty source list (ip.rs 22-24)
ConfigClass == {"Config", "NoSources"}

\* C6: the process ends with an error only for a configuration-time
\* failure: no resolution, store read, store write or notify failure of any
\* cycle, the startup cycle included, ends it.
C6_OnlyConfigFailureStops ==
    pc = "exited" => exitCause \in ConfigClass

\* C7: when SIGINT arrives during the startup jitter sleep or during an
\* inter-cycle sleep, no stage of a further cycle (resolve, append, notify)
\* is started afterwards.
C7_NoCycleAfterSignal ==
    sigAt \in {"jitter", "sleep"} => ~postSig

\* C8: every row of History has exactly one notify invocation for its
\* address, and no notify is invoked that is not for a row appended by the
\* same cycle.
C8_NotifyOncePerObservation ==
    /\ Len(ninv) = Len(history)
    /\ \A i \in 1..Len(ninv) : ninv[i] = 1
    /\ ~stray

C8_Witness ==
    /\ Len(history) >= 3
    /\ restarts >= 1
    /\ pc = "shutdown"

QueryEnded == q.st \in {"ok", "NoSources", "AllSourcesFailed"}

\* C9: for a non-empty list in which some source yields a valid address,
\* the finished query returns the address of the first such source, having
\* fetched no later source, whatever the later sources would answer.
C9_EarliestSourceWins ==
    \A i \in 1..Len(q.answers), a \in Addrs :
        ( /\ QueryEnded
          /\ Yields(q.answers[i], a)
          /\ \A j \in 1..(i - 1) : Fails(q.answers[j]) )
        => (q.st = "ok" /\ q.ip = a /\ q.fetches = i)

C9_Witness ==
    /\ q.st = "ok" /\ q.idx = 2 /\ Len(q.list) >= 3
    /\ q.answers[2].body # ip_to_string(q.ip)
    /\ \E a \in Addrs : a # q.ip /\ Yields(q.answers[3], a)

\* ip_sources = [] was configured
EmptyConfigured == cfg.ip_sources.some /\ cfg.ip_sources.urls = <<>>

\* C10: with an empty configured source list the query fails with NoSources
\* before any fetch, and the process ends with that configuration-class
\* failure having made no network call, no append and no notification.
C10_EmptySourceList ==
    EmptyConfigured =>
        /\ pc = "exited"
        /\ exitCause = "NoSources"
        /\ exitCause \in ConfigClass
        /\ ~run.fetched
        /\ ~run.notified
        /\ history = run.hist0

C10_Witness ==
    /\ EmptyConfigured /\ pc = "exited" /\ history # <<>>

\* C11: for a non-empty list the finished query has failed with
\* AllSourcesFailed exactly when every source of the list fails (transport
\* error, non-success status, or a body that is no address text); it then
\* returns no address, and otherwise it returns one.
C11_AllSourcesFailedIff ==
    (QueryEnded /\ Len(q.list) > 0) =>
        /\ q.st = "AllSourcesFailed" <=>
              \A i \in 1..Len(q.answers) : Fails(q.answers[i])
        /\ q.st = "AllSourcesFailed" => q.ip = "none"
        /\ q.st # "AllSourcesFailed" => (q.st = "ok" /\ q.ip \in Addrs)

C11_Witness ==
    /\ q.st = "AllSourcesFailed" /\ Len(q.list) = 4 /\ q.fetches = 4
    /\ \E i \in 1..4 : q.answers[i].kind = "http" /\ ~q.answers[i].ok
    /\ \E i \in 1..4 : q.answers[i] = TransportErr
    /\ \E i \in 1..4 : q.answers[i].ok

---------------------------------------------------------------------------
(* The history store taken alone: db.rs on one ip_history table, from the  *)
(* table init_db creates.                                                  *)

\* db.rs 15-25: CREATE TABLE IF NOT EXISTS on a new file: no rows
StoreInit ==
    /\ pc = "jitter"
    /\ cfg = NoConfig
    /\ idx = 0
    /\ history = <<>>
    /\ sig = FALSE
    /\ exitCause = "none"
    /\ cyc = NoCycle
    /\ run = NewRun(<<>>)
    /\ ninv = <<>>
    /\ stray = FALSE
    /\ nfail = "none"
    /\ sigAt = "none"
    /\ postSig = FALSE
    /\ cycles = 0
    /\ restarts = 0
    /\ interval = 0
    /\ inflight = {}
    /\ q = NoQuery
    /\ store = NoStore

\* db.rs 45-54: save_ip succeeds
StoreAppend ==
    /\ Len(store.rows) < MaxRows
    /\ \E a \in Addrs :
          store' = [store EXCEPT !.rows = save_ip(@, a),
                                 !.log = Append(@, a),
                                 !.fresh = FALSE]
    /\ UNCHANGED <<main_vars, q>>

\* db.rs 30-42: get_last_ip succeeds
StoreRead ==
    /\ store' = [store EXCEPT !.got = get_last_ip(store.rows),
                              !.fresh = TRUE]
    /\ UNCHANGED <<main_vars, q>>

StoreNext == StoreAppend \/ StoreRead

StoreSpec == StoreInit /\ [][StoreNext]_vars

\* C12: a read of a never-written store returns empty; a read that follows
\* successful appends returns the address of the most recent one; no read
\* returns an address that was never appended.
C12_LastAddress ==
    /\ (store.fresh /\ store.log = <<>>) => store.got = None
    /\ (store.fresh /\ store.log # <<>>) =>
           store.got = store.log[Len(store.log)]
    /\ store.got \in {"unread", None}
                     \cup {store.log[i] : i \in 1..Len(store.log)}

C12_Witness ==
    /\ store.fresh /\ Len(store.log) >= 3
    /\ store.got = "ipB" /\ store.log[1] = "ipA"
    /\ store.log[Len(store.log) - 1] = "ipA"

\* C13: the interval the polling loop sleeps is max(check_interval_secs,
\* 30) seconds for every configured value, so it is never below 30.
C13_IntervalFloor ==
    pc \in Select =>
        /\ interval >= PollFloor
        /\ interval >= cfg.check_interval_secs
        /\ interval \in {PollFloor, cfg.check_interval_secs}

C13_Witness ==
    /\ pc = "sleep" /\ cyc.kind = "loop"
    /\ cfg.check_interval_secs = 29 /\ interval = 30

\* C14: cycles never overlap: at most one operation of a cycle is in flight
\* at any time, and none is while main is in an inter-cycle sleep (or in the
\* jitter sleep, or has ended): a sleep starts only once the cycle before it
\* has completed its resolve, compare, append and notify.
C14_NoOverlap ==
    /\ Cardinality(inflight) <= 1
    /\ pc \in ({"sleep", "jitter"} \cup Ended) => inflight = {}

C14_Witness ==
    /\ pc = "sleep" /\ cyc.kind = "loop" /\ cyc.notify = "change"
    /\ cycles >= 3 /\ inflight = {}

\* C15: a cycle whose resolver fails (every source it asked failed) leaves
\* History as it was and invokes no notification.
C15_ResolveFailureFrame ==
    (cyc.kind # "none" /\ cyc.allBad) =>
        /\ cyc.append = "none"
        /\ cyc.notify = "none"
        /\ history = cyc.hist0

C15_Witness ==
    /\ cyc.kind = "loop" /\ cyc.done /\ cyc.allBad
    /\ pc = "sleep" /\ Len(history) >= 2

\* C16: History is append-only: every step either leaves it as it was or
\* appends one Observation to it, so that every earlier value is a prefix of
\* every later one across cycles, failures, cancellations and restarts.
C16_AppendOnly ==
    [][\/ history' = history
       \/ \E a \in Addrs : history' = Append(history, ip_to_string(a))]_vars

C16_Witness ==
    /\ restarts >= 1 /\ Len(history) >= 2
    /\ Len(history) > Len(run.hist0) /\ run.hist0 # <<>>

\* the address of the last Observation the previous run left behind
PreviousLast ==
    IF run.hist0 = <<>> THEN None ELSE ParseIp(run.hist0[Len(run.hist0)])

\* C17: after a restart the store is opened with the previous run's History
\* in it and the startup cycle compares against its last Observation; when
\* the resolved address equals it, nothing is appended and nothing is sent.
C17_RestartUnchanged ==
    (restarts >= 1 /\ cyc.kind = "startup" /\ cyc.epoch = restarts) =>
        /\ cyc.hist0 = run.hist0
        /\ (cyc.ip \in Addrs /\ cyc.prior # "readerr") =>
               cyc.prior = PreviousLast
        /\ (cyc.ip \in Addrs /\ cyc.ip = PreviousLast) =>
               /\ cyc.append = "none"
               /\ cyc.notify = "none"
               /\ history = run.hist0

C17_Witness ==
    /\ restarts >= 1 /\ cyc.kind = "startup" /\ cyc.epoch = restarts
    /\ cyc.ip \in Addrs /\ cyc.ip = PreviousLast /\ cyc.prior = cyc.ip
    /\ pc = "sleep"

\* C18: once SIGINT has arrived, at whatever point of the run, the process
\* ends in no other way than by the clean shut-down.
C18_SignalEndsInShutdown ==
    (sigAt # "none" /\ pc \in Ended) => pc = "shutdown"

\* C19: no two consecutive Observations of History carry the same address.
C19_NoConsecutiveDuplicates ==
    \A i \in 1..(Len(history) - 1) :
        ParseIp(history[i]) # ParseIp(history[i + 1])

C19_Witness ==
    /\ Len(history) >= 3 /\ restarts >= 1
    /\ ParseIp(history[1]) = ParseIp(history[3])

\* C20: the polling loop runs on a non-empty History only: a last-address
\* read of a polling cycle never yields absent, and a polling cycle never
\* notifies for a first-ever observation.
C20_LoopHistoryNonEmpty ==
    /\ pc \in Select => history # <<>>
    /\ cyc.kind = "loop" =>
           /\ cyc.hist0 # <<>>
           /\ cyc.prior # None
           /\ cyc.notify # "none" => cyc.prior \in Addrs

C20_Witness ==
    /\ cyc.kind = "loop" /\ cyc.done /\ cyc.prior \in Addrs
    /\ cyc.notify = "change" /\ cyc.append = "ok" /\ run.hist0 = <<>>

=============================================================================
